---- MODULE Spec2Model ----
(***************************************************************************)
(* Model of satpy/readers/cyclobs_l2_gridded_nc.py:                        *)
(* CyclObsL2GriddedNCFileHandler (get_dataset, get_area_def, get_metadata  *)
(* and the four properties) over small NetCDF files.                       *)
(***************************************************************************)
EXTENDS Integers, Sequences, FiniteSets, TLC

(***************************************************************************)
(* Bounds of the model.                                                    *)
(***************************************************************************)
\* lat has 1..MaxDim samples, lon has 1..MaxDim samples
MaxDim == 2

\* the handler instances
Handlers == {1, 2}

(***************************************************************************)
(* Python values.  Attribute values are tagged so that values of different *)
(* Python types can live in one mapping.                                   *)
(***************************************************************************)
Str(s) == <<"str", s>>
DateTime(us) == <<"datetime", us>>
Mapping(m) == <<"dict", m>>

\* the empty dict
EmptyDict == [k \in {} |-> Str("")]

\* a merge in which the keys m already has keep their values
UpdateKeepingOld(m, n) == [k \in (DOMAIN m) \cup (DOMAIN n) |-> IF k \in DOMAIN m THEN m[k] ELSE n[k]]

\* dict.update: the keys of n overwrite those of m
Update(m, n) == [k \in (DOMAIN m) \cup (DOMAIN n) |-> IF k \in DOMAIN n THEN n[k] ELSE m[k]]

\* dict.get(key, default)
Get(m, key, default) == IF key \in DOMAIN m THEN m[key] ELSE default

\* Python's None, as info.get('file_key') returns it; no file key is called so
None == "None"

\* datetime.utcfromtimestamp(ns * 1e-9): nanoseconds to a datetime of
\* microsecond resolution, rounded half to even (the float product is exact
\* enough for that at the small values of the model)
utcfromtimestamp(ns) ==
    LET q == ns \div 1000
        r == ns % 1000
        us == IF r < 500 THEN q
              ELSE IF r > 500 THEN q + 1
              ELSE IF q % 2 = 0 THEN q ELSE q + 1
    IN DateTime(us)

(***************************************************************************)
(* numpy / xarray arrays: [shape, data], data nested sequences, outermost  *)
(* axis first; a 0-d array holds its scalar.                               *)
(***************************************************************************)
Reverse(s) == [i \in 1..Len(s) |-> s[Len(s) + 1 - i]]

RECURSIVE SqueezeData(_, _)
\* data.squeeze() on the nested data of an array of the given rank
SqueezeData(a, rank) ==
    IF rank = 0 THEN a
    ELSE LET inner == [i \in 1..Len(a) |-> SqueezeData(a[i], rank - 1)]
         IN IF Len(a) = 1 THEN inner[1] ELSE inner

RECURSIVE SelectIdx(_, _)
\* the entries of s whose axis length in shape is not 1
SelectIdx(s, shape) ==
    IF Len(s) = 0 THEN << >>
    ELSE IF Head(shape) = 1 THEN SelectIdx(Tail(s), Tail(shape))
    ELSE <<Head(s)>> \o SelectIdx(Tail(s), Tail(shape))

\* DataArray.squeeze(): every axis of length 1 is dropped, names, attrs and
\* coordinates are kept
squeeze(arr) ==
    [dims |-> SelectIdx(arr.dims, arr.shape),
     shape |-> SelectIdx(arr.shape, arr.shape),
     data |-> SqueezeData(arr.data, Len(arr.shape)),
     attrs |-> arr.attrs,
     coords |-> arr.coords]

\* the conversion to an ndarray without the flip
flipud_missing(arr) ==
    IF Len(arr.shape) = 0 THEN [status |-> "ValueError"]
    ELSE [status |-> "ok", shape |-> arr.shape, data |-> arr.data]

\* np.flipud(m): asanyarray(m)[::-1, ...], a plain ndarray without names or
\* attrs; ValueError on a 0-d input
flipud(arr) ==
    IF Len(arr.shape) = 0 THEN [status |-> "ValueError"]
    ELSE [status |-> "ok", shape |-> arr.shape, data |-> Reverse(arr.data)]

\* np.meshgrid(x, y): two arrays of shape (len(y), len(x))
meshgrid(x, y) ==
    << [i \in 1..Len(y) |-> [j \in 1..Len(x) |-> x[j]]],
       [i \in 1..Len(y) |-> [j \in 1..Len(x) |-> y[i]]] >>

\* xr.DataArray(ndarray, dims=dims): ValueError unless one name per axis
DataArray(nd, dims) ==
    IF Len(dims) # Len(nd.shape) THEN [status |-> "ValueError"]
    ELSE [status |-> "ok",
          value |-> [dims |-> dims, shape |-> nd.shape, data |-> nd.data,
                     attrs |-> EmptyDict]]

(***************************************************************************)
(* The files.  A file of an H x W grid holds lat (H samples), lon (W       *)
(* samples), two gridded variables on the time axis, one without it, and   *)
(* the global attributes.                                                  *)
(***************************************************************************)
\* a variable of the file as self[name] returns it
Variable(dims, shape, data, attrs, coords) ==
    [dims |-> dims, shape |-> shape, data |-> data, attrs |-> attrs, coords |-> coords]

NoCoords == [k \in {} |-> << >>]

\* the grid values of a variable: cell (i, j) holds base + 10 * i + j
Grid(H, W, base) == [i \in 1..H |-> [j \in 1..W |-> base + 10 * i + j]]

\* lat of H samples, northward (step 1) or southward (step -1)
LatVector(H, step) == [i \in 1..H |-> 20 + step * i]

\* lon of W samples, eastward (step 1) or westward (step -1)
LonVector(W, step) == [j \in 1..W |-> -60 + step * j]

\* the time coordinate of a file in integer nanoseconds: one sample
TimeCoord(H, W) == << 500 * H * W + 500 >>

\* native attributes of wind_speed
WindSpeedAttrs == ("units" :> Str("m/s")) @@ ("long_name" :> Str("wind speed"))

\* native attributes of wind_from_direction: they collide with every layer
WindDirAttrs ==
    ("units" :> Str("degree")) @@ ("time" :> Str("native-time"))
    @@ ("sensor" :> Str("native-sensor")) @@ ("platform_name" :> Str("native-platform"))
    @@ ("start_time" :> Str("native-start")) @@ ("global_attributes" :> Str("native-global"))

\* the file-level attributes
GlobalAttrs == ("source" :> Str("CyclObs")) @@ ("sensor" :> Str("global-sensor"))

\* file_content of NetCDF4FileHandler for an H x W file
FileContent(H, W, latStep, lonStep) ==
    LET lat == Variable(<<"lat">>, <<H>>, LatVector(H, latStep), EmptyDict, NoCoords)
        lon == Variable(<<"lon">>, <<W>>, LonVector(W, lonStep), EmptyDict, NoCoords)
        tc == "time" :> TimeCoord(H, W)
        ws == Variable(<<"time", "lat", "lon">>, <<1, H, W>>, << Grid(H, W, 0) >>,
                       WindSpeedAttrs, tc)
        wd == Variable(<<"time", "level", "lat", "lon">>, <<1, 1, H, W>>,
                       << << Grid(H, W, 100) >> >>, WindDirAttrs, tc)
        mk == Variable(<<"lat", "lon">>, <<H, W>>, Grid(H, W, 200), EmptyDict, NoCoords)
    IN ("lat" :> lat) @@ ("lon" :> lon)
       @@ ("lat/shape" :> <<H>>) @@ ("lon/shape" :> <<W>>)
       @@ ("wind_speed" :> ws) @@ ("wind_from_direction" :> wd) @@ ("mask" :> mk)
       @@ ("/attrs" :> GlobalAttrs)

\* the orientations of (lat, lon) in the files of the model
Orientations == { <<1, 1>>, <<-1, 1>>, <<1, -1>> }

\* the files of the model
Files == { FileContent(H, W, o[1], o[2]) :
             H \in 1..MaxDim, W \in 1..MaxDim, o \in Orientations }

(***************************************************************************)
(* The state: the handler instances and the last call with its outcome.    *)
(***************************************************************************)
VARIABLES
    filename_info,   \* filename_info[h]: the mapping parsed from the file name
    platforms,       \* platforms[h]: the platform table of the instance
    file_content,    \* file_content[h]: the file the instance is bound to
    last             \* the last call: handler, operation, arguments, outcome

vars == <<filename_info, platforms, file_content, last>>

\* an operation raised the exception e
Raise(e) == [status |-> e]

\* an operation returned v
Return(v) == [status |-> "ok", value |-> v]

\* the instance h as the methods see it
Self(h) == [filename_info |-> filename_info[h], platforms |-> platforms[h],
            file_content |-> file_content[h]]

\* self.platforms as __init__ sets it
PlatformTable ==
    ("rs2" :> Str("RADARSAT-2")) @@ ("s1a" :> Str("SENTINEL-1A")) @@ ("s1b" :> Str("SENTINEL-1B"))

\* self[key] of NetCDF4FileHandler: file_content[key], KeyError on a key the
\* file does not have
GetItem(self, key) ==
    IF key \in DOMAIN self.file_content THEN Return(self.file_content[key])
    ELSE Raise("KeyError")

(***************************************************************************)
(* The properties.                                                         *)
(***************************************************************************)
\* start_time: self.filename_info['start_time']
start_time(self) ==
    IF "start_time" \in DOMAIN self.filename_info
    THEN Return(self.filename_info["start_time"])
    ELSE Raise("KeyError")

\* end_time that is start_time whatever filename_info has
end_time_is_start(self) == start_time(self)

\* end_time: self.filename_info.get('end_time', self.start_time); the default
\* is evaluated first
end_time(self) ==
    LET st == start_time(self)
    IN IF st.status # "ok" THEN st
       ELSE Return(Get(self.filename_info, "end_time", st.value))

\* sensor_name
sensor_name(self) == Return(Str("sar-c"))

\* platform_shortname: self.filename_info['platform_shortname']
platform_shortname(self) ==
    IF "platform_shortname" \in DOMAIN self.filename_info
    THEN Return(self.filename_info["platform_shortname"])
    ELSE Raise("KeyError")

(***************************************************************************)
(* get_metadata.  The dicts are objects: metadata, data.attrs and info     *)
(* live in a small heap, so that a write through one name is seen through  *)
(* every name bound to the same object.                                    *)
(***************************************************************************)
\* metadata = info: the name is bound to the dict of the caller
metadata_bound_to_info == "info"

\* metadata = {}: the name is bound to a new object, neither info nor attrs
metadata_binding == "new"

\* self.platforms.get(shortname, shortname): the shortname stands in
platform_name_fallback(self, shortname) ==
    IF shortname[2] \in DOMAIN self.platforms THEN Return(self.platforms[shortname[2]])
    ELSE Return(shortname)

\* self.platforms[shortname]
platform_name(self, shortname) ==
    IF shortname[2] \in DOMAIN self.platforms THEN Return(self.platforms[shortname[2]])
    ELSE Raise("KeyError")

\* the dict literal of the derived fields, evaluated entry by entry
derived_fields(self) ==
    LET sn == platform_shortname(self)
        pn == platform_name(self, sn.value)
        st == start_time(self)
        et == end_time(self)
    IN IF sn.status # "ok" THEN Raise(sn.status)
       ELSE IF pn.status # "ok" THEN Raise(pn.status)
       ELSE IF st.status # "ok" THEN Raise(st.status)
       ELSE IF et.status # "ok" THEN Raise(et.status)
       ELSE Return(("platform_shortname" :> sn.value) @@ ("platform_name" :> pn.value)
                   @@ ("sensor" :> Str("sar-c"))
                   @@ ("start_time" :> st.value) @@ ("end_time" :> et.value))

\* info.get('file_key'), None when the key is absent
file_key_of(info) == IF "file_key" \in DOMAIN info THEN info["file_key"][2] ELSE None

\* get_metadata(data, info) with data.attrs = attrs; the outcome carries the
\* dicts of the caller as the call leaves them
get_metadata(self, attrs, info) ==
    LET t == metadata_binding
        h0 == [new |-> EmptyDict, attrs |-> attrs, info |-> info]
        h1 == [h0 EXCEPT ![t] = Update(h0[t], h0.attrs)]
        h2 == [h1 EXCEPT ![t] = Update(h1[t], h1.info)]
        d == derived_fields(self)
        h3 == [h2 EXCEPT ![t] = Update(h2[t], d.value)]
        v == GetItem(self, file_key_of(h3.info))
        h4 == [h3 EXCEPT ![t] = Update(h3[t], v.value.attrs)]
        g == GetItem(self, "/attrs")
        h5 == [h4 EXCEPT ![t] = Update(h4[t], "global_attributes" :> Mapping(g.value))]
    IN IF d.status # "ok" THEN [status |-> d.status, attrs |-> h2.attrs, info |-> h2.info]
       ELSE IF v.status # "ok" THEN [status |-> v.status, attrs |-> h3.attrs, info |-> h3.info]
       ELSE IF g.status # "ok" THEN [status |-> g.status, attrs |-> h4.attrs, info |-> h4.info]
       ELSE [status |-> "ok", value |-> h5[t], attrs |-> h5.attrs, info |-> h5.info,
             derived |-> d.value]

(***************************************************************************)
(* get_dataset.                                                            *)
(***************************************************************************)
\* the squeezed array under the names y, x, rows as in the file
to_yx_unflipped(data) ==
    LET f == flipud_missing(squeeze(data))
    IN IF f.status # "ok" THEN Raise(f.status)
       ELSE DataArray(f, <<"y", "x">>)

\* the flipped array under the names of the squeezed source
to_yx_source_dims(data) ==
    LET f == flipud(squeeze(data))
    IN IF f.status # "ok" THEN Raise(f.status)
       ELSE IF Len(f.shape) # 2 THEN Raise("ValueError")
       ELSE DataArray(f, squeeze(data).dims)

\* data = np.flipud(data.squeeze()); data = xr.DataArray(data, dims=['y', 'x'])
to_yx(data) ==
    LET f == flipud(squeeze(data))
    IN IF f.status # "ok" THEN Raise(f.status)
       ELSE DataArray(f, <<"y", "x">>)

\* data.attrs = self.get_metadata(data, info) before the time is set
attach_metadata_before_time(self, data, time, info) ==
    LET md == get_metadata(self, data.attrs, info)
    IN IF md.status # "ok" THEN [status |-> md.status, info |-> md.info]
       ELSE [status |-> "ok", value |-> [data EXCEPT !.attrs = md.value], info |-> md.info]

\* data.attrs.update({"time": time}); data.attrs = self.get_metadata(data, info)
attach_metadata(self, data, time, info) ==
    LET attrs == Update(data.attrs, "time" :> time)
        md == get_metadata(self, attrs, info)
    IN IF md.status # "ok" THEN [status |-> md.status, info |-> md.info]
       ELSE [status |-> "ok", value |-> [data EXCEPT !.attrs = md.value], info |-> md.info]

\* the two rename statements: rename returns a new array that is dropped
rename_dims(data) ==
    LET lon == \E i \in 1..Len(data.dims) : data.dims[i] = "lon"
        lat == \E i \in 1..Len(data.dims) : data.dims[i] = "lat"
    IN [lon |-> lon, lat |-> lat, before |-> data.dims, data |-> data]

\* get_dataset(ds_id, info)
get_dataset(self, ds_id, info) ==
    LET file_key == IF "file_key" \in DOMAIN info THEN info["file_key"][2] ELSE ds_id["name"]
        src == GetItem(self, file_key)
        has_time == "time" \in DOMAIN src.value.coords
        time == utcfromtimestamp(src.value.coords["time"][1])
        yx == to_yx(src.value)
        md == attach_metadata(self, yx.value, time, info)
        rn == rename_dims(md.value)
    IN IF src.status # "ok" THEN [status |-> src.status, info |-> info]
       ELSE IF ~has_time THEN [status |-> "KeyError", info |-> info]
       ELSE IF yx.status # "ok" THEN [status |-> yx.status, info |-> info]
       ELSE IF md.status # "ok" THEN [status |-> md.status, info |-> md.info]
       ELSE [status |-> "ok", value |-> rn.data, info |-> md.info,
             rename |-> [lon |-> rn.lon, lat |-> rn.lat, before |-> rn.before]]

(***************************************************************************)
(* get_area_def.                                                           *)
(***************************************************************************)
\* AreaDefinition with height and width in each other's place
AreaDefinition_hw(area_id, description, proj_id, projection, width, height, area_extent) ==
    [area_id |-> area_id, description |-> description, proj_id |-> proj_id,
     projection |-> projection, width |-> height, height |-> width,
     area_extent |-> area_extent]

\* AreaDefinition(area_id, description, proj_id, projection, width, height, area_extent)
AreaDefinition(area_id, description, proj_id, projection, width, height, area_extent) ==
    [area_id |-> area_id, description |-> description, proj_id |-> proj_id,
     projection |-> projection, width |-> width, height |-> height,
     area_extent |-> area_extent]

\* get_area_def(dsid); Python index n is index n + 1 here
get_area_def(self, dsid) ==
    LET lat == GetItem(self, "lat")
        flip_lat == flipud(lat.value)
        lon == GetItem(self, "lon")
        latlon == meshgrid(lon.value.data, flip_lat.data)
        ws == GetItem(self, "lon/shape")
        hs == GetItem(self, "lat/shape")
        width == ws.value[1]
        height == hs.value[1]
        lower_left_x == latlon[1][height][1]
        lower_left_y == latlon[2][height][1]
        upper_right_y == latlon[2][1][width]
        upper_right_x == latlon[1][1][width]
        area_extent == <<lower_left_x, lower_left_y, upper_right_x, upper_right_y>>
    IN IF lat.status # "ok" THEN Raise(lat.status)
       ELSE IF flip_lat.status # "ok" THEN Raise(flip_lat.status)
       ELSE IF lon.status # "ok" THEN Raise(lon.status)
       ELSE IF ws.status # "ok" THEN Raise(ws.status)
       ELSE IF hs.status # "ok" THEN Raise(hs.status)
       ELSE Return(AreaDefinition("cyclobs", "CyclObs L2 WGS84", "World Geodetic System 1984",
                                  "EPSG:4326", width, height, area_extent))

(***************************************************************************)
(* The inputs of the calls.                                                *)
(***************************************************************************)
\* the platform shortnames parsed from file names; "tsx" is not in the table
Shortnames == {"rs2", "s1a", "s1b", "tsx"}

\* filename_info: start_time always, platform_shortname and end_time or not
FilenameInfos ==
    LET base == "start_time" :> DateTime(10)
        withEnd == base @@ ("end_time" :> DateTime(25))
    IN { b @@ ("platform_shortname" :> Str(sn)) : b \in {base, withEnd}, sn \in Shortnames }
       \cup {base, withEnd}

\* the configurations of the second instance
SecondFilenameInfos ==
    { ("start_time" :> DateTime(40)) @@ ("platform_shortname" :> Str("s1b")),
      ("start_time" :> DateTime(40)) @@ ("end_time" :> DateTime(55))
          @@ ("platform_shortname" :> Str("rs2")) }

SecondFiles == { FileContent(n, n, 1, 1) : n \in {MaxDim} }

\* dataset identifiers; the files have no sea_ice
DsIds == { [name |-> "wind_speed"], [name |-> "wind_from_direction"],
           [name |-> "mask"], [name |-> "sea_ice"] }

\* info mappings of the caller
Infos ==
    { EmptyDict,
      ("name" :> Str("wind_speed")) @@ ("units" :> Str("knots")),
      "file_key" :> Str("wind_speed"),
      ("file_key" :> Str("wind_from_direction")) @@ ("units" :> Str("info-units")),
      ("file_key" :> Str("wind_speed")) @@ ("time" :> Str("info-time"))
          @@ ("sensor" :> Str("info-sensor")) @@ ("platform_name" :> Str("info-platform"))
          @@ ("end_time" :> Str("info-end")) @@ ("global_attributes" :> Str("info-global")),
      "file_key" :> Str("mask"),
      "file_key" :> Str("sea_ice") }

\* data.attrs of the arrays handed to get_metadata directly
DataAttrs ==
    { EmptyDict,
      "time" :> DateTime(3),
      ("foo" :> Str("1")) @@ ("sensor" :> Str("attrs-sensor")) @@ ("units" :> Str("attrs-units"))
          @@ ("source" :> Str("attrs-source")) }

(***************************************************************************)
(* The state machine.                                                      *)
(***************************************************************************)
\* __init__ of each instance: filename_info and the file are bound, the
\* platform table is set
Init ==
    /\ filename_info \in { f \in [Handlers -> FilenameInfos \cup SecondFilenameInfos] :
                               f[1] \in FilenameInfos /\ f[2] \in SecondFilenameInfos }
    /\ platforms = [h \in Handlers |-> PlatformTable]
    /\ file_content \in { f \in [Handlers -> Files \cup SecondFiles] :
                              f[1] \in Files /\ f[2] \in SecondFiles }
    /\ last = [op |-> "__init__"]

\* a call of get_dataset
GetDataset(h, ds_id, info) ==
    /\ last' = [op |-> "get_dataset", h |-> h, ds_id |-> ds_id, info |-> info,
                out |-> get_dataset(Self(h), ds_id, info)]
    /\ UNCHANGED <<filename_info, platforms, file_content>>

\* a call of get_area_def
GetAreaDef(h, dsid) ==
    /\ last' = [op |-> "get_area_def", h |-> h, dsid |-> dsid,
                out |-> get_area_def(Self(h), dsid)]
    /\ UNCHANGED <<filename_info, platforms, file_content>>

\* a direct call of get_metadata
GetMetadata(h, attrs, info) ==
    /\ last' = [op |-> "get_metadata", h |-> h, attrs |-> attrs, info |-> info,
                out |-> get_metadata(Self(h), attrs, info)]
    /\ UNCHANGED <<filename_info, platforms, file_content>>

\* a read of the four properties
ReadProperties(h) ==
    /\ last' = [op |-> "properties", h |-> h,
                start_time |-> start_time(Self(h)), end_time |-> end_time(Self(h)),
                sensor_name |-> sensor_name(Self(h)),
                platform_shortname |-> platform_shortname(Self(h))]
    /\ UNCHANGED <<filename_info, platforms, file_content>>

Next ==
    \E h \in Handlers :
        \/ \E ds_id \in DsIds, info \in Infos : GetDataset(h, ds_id, info)
        \/ \E dsid \in DsIds : GetAreaDef(h, dsid)
        \/ \E attrs \in DataAttrs, info \in Infos : GetMetadata(h, attrs, info)
        \/ ReadProperties(h)

Spec == Init /\ [][Next]_vars

(***************************************************************************)
(* What the claims speak of in the last call.                              *)
(***************************************************************************)
\* the last call was op and returned
Returned(op) == last.op = op /\ last.out.status = "ok"

\* the metadata map the last call built: the result of get_metadata, the attrs
\* of the array of get_dataset
LastMetadata == IF last.op = "get_metadata" THEN last.out.value ELSE last.out.value.attrs

\* the last call built a metadata map
BuiltMetadata == Returned("get_metadata") \/ Returned("get_dataset")

\* the five layers of the last metadata map, lowest precedence first
LastLayers ==
    LET fc == file_content[last.h]
        fi == filename_info[last.h]
        first == IF last.op = "get_metadata" THEN last.attrs
                 ELSE "time" :> utcfromtimestamp(fc[last.info["file_key"][2]].coords["time"][1])
        derived == ("platform_shortname" :> fi["platform_shortname"])
                   @@ ("platform_name" :> PlatformTable[fi["platform_shortname"][2]])
                   @@ ("sensor" :> Str("sar-c"))
                   @@ ("start_time" :> fi["start_time"])
                   @@ ("end_time" :> IF "end_time" \in DOMAIN fi THEN fi["end_time"]
                                     ELSE fi["start_time"])
    IN << first, last.info, derived, fc[last.info["file_key"][2]].attrs,
          "global_attributes" :> Mapping(fc["/attrs"]) >>

\* the highest layer that has the key k
TopLayer(layers, k) ==
    CHOOSE i \in 1..Len(layers) :
        /\ k \in DOMAIN layers[i]
        /\ \A j \in (i + 1)..Len(layers) : k \notin DOMAIN layers[j]

\* C1: the metadata map is the layered merge of data.attrs, info, the derived
\* fields, the native attributes of the source variable and
\* {global_attributes: file attributes}: it has the keys of the layers and no
\* other, each key with the value of the highest layer that has it; the
\* derived fields win over data.attrs and info, and the file attributes are
\* only under global_attributes.
C1_LayeredMerge ==
    BuiltMetadata =>
        LET md == LastMetadata
            layers == LastLayers
        IN /\ DOMAIN md = UNION { DOMAIN layers[i] : i \in 1..Len(layers) }
           /\ \A k \in DOMAIN md : md[k] = layers[TopLayer(layers, k)][k]
           /\ \A k \in DOMAIN layers[3] :
                  k \notin DOMAIN layers[4] \cup DOMAIN layers[5] => md[k] = layers[3][k]
           /\ md["global_attributes"] = Mapping(file_content[last.h]["/attrs"])
           /\ \A k \in DOMAIN file_content[last.h]["/attrs"] :
                  k \in DOMAIN md => \E i \in 1..4 : k \in DOMAIN layers[i]

\* a metadata map in which data.attrs, info and the derived fields collide
\* on sensor and the file has attributes of its own
C1_Witness ==
    /\ Returned("get_metadata")
    /\ "sensor" \in DOMAIN last.attrs /\ "sensor" \in DOMAIN last.info
    /\ last.out.value["sensor"] = Str("sar-c")
    /\ "source" \in DOMAIN last.attrs

(***************************************************************************)
(* The source variable of a get_dataset call.                              *)
(***************************************************************************)
\* the variable name a get_dataset call is to resolve: info['file_key'] if
\* the key is present, ds_id['name'] otherwise
ResolvedName == IF "file_key" \in DOMAIN last.info THEN last.info["file_key"][2]
                ELSE last.ds_id["name"]

\* the last call is a get_dataset whose resolved name is a variable of the file
\* that has a time coordinate
OnTimedVariable ==
    /\ last.op = "get_dataset"
    /\ ResolvedName \in DOMAIN file_content[last.h]
    /\ "time" \in DOMAIN file_content[last.h][ResolvedName].coords

\* the resolved source variable
Source == file_content[last.h][ResolvedName]

\* its shape is (1, ..., 1, H, W)
SourceH == Source.shape[Len(Source.shape) - 1]
SourceW == Source.shape[Len(Source.shape)]
LeadingSingletons ==
    /\ Len(Source.shape) >= 2
    /\ \A i \in 1..(Len(Source.shape) - 2) : Source.shape[i] = 1

RECURSIVE Peel(_, _)
\* the array under n leading axes of length 1
Peel(a, n) == IF n = 0 THEN a ELSE Peel(a[1], n - 1)

\* the H x W grid of the source
SourceGrid == Peel(Source.data, Len(Source.shape) - 2)

\* the platform shortname of the instance of the last call is in the table
KnownPlatform ==
    /\ "platform_shortname" \in DOMAIN filename_info[last.h]
    /\ filename_info[last.h]["platform_shortname"][2] \in {"rs2", "s1a", "s1b"}

\* the returned array is the H x W source grid with the rows reversed
FlippedGrid(arr, H, W) ==
    /\ arr.shape = <<H, W>>
    /\ arr.dims = <<"y", "x">>
    /\ Len(arr.data) = H
    /\ \A i \in 1..H : /\ Len(arr.data[i]) = W
                        /\ \A j \in 1..W : arr.data[i][j] = SourceGrid[H + 1 - i][j]
    /\ arr.data[1] = SourceGrid[H]

\* C2: get_dataset resolves one variable name, info['file_key'] if present and
\* ds_id['name'] otherwise, and uses it for the data and for the native
\* attributes in the metadata: a call whose resolved name is a gridded variable
\* of the file returns, with the grid and the native attributes of that
\* variable (here on files of two rows and columns or more and a known
\* platform, where nothing else can fail).
C2_ResolvedVariable ==
    (OnTimedVariable /\ KnownPlatform /\ SourceH >= 2 /\ SourceW >= 2) =>
        /\ last.out.status = "ok"
        /\ FlippedGrid(last.out.value, SourceH, SourceW)
        /\ \A k \in DOMAIN Source.attrs : k \in DOMAIN last.out.value.attrs

\* C3 as stated: for every source variable of shape (H, W) with H >= 1 and
\* W >= 1 under leading singleton dimensions get_dataset returns the (H, W)
\* array with dims (y, x) whose row i is row H-1-i of the source (here for the
\* calls that name the variable by file_key on a known platform).
C3_FlipFromOne ==
    (OnTimedVariable /\ "file_key" \in DOMAIN last.info /\ KnownPlatform
     /\ LeadingSingletons /\ SourceH >= 1 /\ SourceW >= 1) =>
        /\ last.out.status = "ok"
        /\ FlippedGrid(last.out.value, SourceH, SourceW)

\* C3 as amended: for every source variable of shape (H, W) with H >= 2 and
\* W >= 2 under leading singleton dimensions, every get_dataset call that
\* returns gives the (H, W) array with dims (y, x) whose row i is row H-1-i of
\* the squeezed source, columns as they were, and the calls that name the
\* variable by file_key on a known platform do return; with H = 1 or W = 1
\* squeeze drops that axis too and no call returns: it ends in a ValueError.
C3_FlipFromTwo ==
    /\ Returned("get_dataset") =>
           /\ LeadingSingletons /\ SourceH >= 2 /\ SourceW >= 2
           /\ FlippedGrid(last.out.value, SourceH, SourceW)
    /\ (OnTimedVariable /\ "file_key" \in DOMAIN last.info /\ KnownPlatform
        /\ LeadingSingletons /\ SourceH >= 2 /\ SourceW >= 2) =>
           last.out.status = "ok"
    /\ (OnTimedVariable /\ LeadingSingletons /\ (SourceH = 1 \/ SourceW = 1)) =>
           last.out.status = "ValueError"

\* a returned array of two rows or more from a source under two leading
\* singleton dimensions
C3_Witness ==
    /\ Returned("get_dataset")
    /\ Len(Source.shape) = 4
    /\ SourceH >= 2 /\ SourceW >= 2
    /\ last.out.value.data[1] = SourceGrid[SourceH]
    /\ last.out.value.data[1] # SourceGrid[1]

(***************************************************************************)
(* get_area_def.                                                           *)
(***************************************************************************)
\* the lat and lon vectors of the file of the last call, as stored
FileLat == file_content[last.h]["lat"].data
FileLon == file_content[last.h]["lon"].data

\* the (lon, flipped-lat) mesh at row i, column j, counted from 0
MeshAt(i, j) == << FileLon[j + 1], FileLat[Len(FileLat) - i] >>

\* C4: get_area_def returns width = len(lon), height = len(lat), the CRS
\* EPSG:4326 and the extent (llx, lly, urx, ury) with (llx, lly) the mesh value
\* at row H-1, column 0 and (urx, ury) the mesh value at row 0, column W-1,
\* whatever dsid is.
C4_AreaDef ==
    last.op = "get_area_def" =>
        LET W == Len(FileLon)
            H == Len(FileLat)
            area == last.out.value
        IN /\ last.out.status = "ok"
           /\ area.width = W
           /\ area.height = H
           /\ area.projection = "EPSG:4326"
           /\ area.area_extent = MeshAt(H - 1, 0) \o MeshAt(0, W - 1)
           /\ \A dsid \in DsIds : get_area_def(Self(last.h), dsid) = last.out

\* an area of a grid with more columns than rows
C4_Witness ==
    /\ Returned("get_area_def")
    /\ last.out.value.width > last.out.value.height
    /\ last.out.value.width = Len(FileLon)

\* s is strictly increasing
StrictlyIncreasing(s) == \A i \in 1..(Len(s) - 1) : s[i] < s[i + 1]

\* C10: the extent is (lon[0], lat[0], lon[W-1], lat[H-1]) of the vectors as the
\* file stores them, and llx < urx and lly < ury when both are strictly
\* increasing and W, H >= 2.
C10_ExtentOfFileVectors ==
    last.op = "get_area_def" =>
        LET W == Len(FileLon)
            H == Len(FileLat)
            e == last.out.value.area_extent
        IN /\ last.out.status = "ok"
           /\ e = << FileLon[1], FileLat[1], FileLon[W], FileLat[H] >>
           /\ (StrictlyIncreasing(FileLat) /\ StrictlyIncreasing(FileLon) /\ W >= 2 /\ H >= 2) =>
                  (e[1] < e[3] /\ e[2] < e[4])

\* an extent of a file with increasing vectors of two samples or more
C10_Witness ==
    /\ Returned("get_area_def")
    /\ Len(FileLat) >= 2 /\ Len(FileLon) >= 2
    /\ StrictlyIncreasing(FileLat) /\ StrictlyIncreasing(FileLon)
    /\ last.out.value.area_extent[2] < last.out.value.area_extent[4]

(***************************************************************************)
(* The platform name.                                                      *)
(***************************************************************************)
\* the platform name of a recognized shortname
MappedName(sn) ==
    CASE sn = "rs2" -> Str("RADARSAT-2")
      [] sn = "s1a" -> Str("SENTINEL-1A")
      [] sn = "s1b" -> Str("SENTINEL-1B")

\* the native attributes of the variable that info['file_key'] names
NativeAttrs == file_content[last.h][last.info["file_key"][2]].attrs

\* C5 as stated: with a recognized shortname the platform_name of the metadata
\* is the mapped string; with any other shortname, or none in filename_info,
\* get_metadata and get_dataset end in a key error and return nothing.
C5_PlatformNameAlways ==
    /\ (BuiltMetadata /\ KnownPlatform) =>
           LastMetadata["platform_name"] = MappedName(filename_info[last.h]["platform_shortname"][2])
    /\ (last.op \in {"get_metadata", "get_dataset"} /\ ~KnownPlatform) =>
           (last.out.status = "KeyError" /\ "value" \notin DOMAIN last.out)

\* C5 as amended: with a recognized shortname the derived platform_name is the
\* mapped string, and it is the platform_name of the metadata unless the source
\* variable has a native attribute platform_name, which outranks it; with any
\* other shortname, or none in filename_info, get_metadata ends in a key error
\* and get_dataset returns no array: it ends in that key error, or before
\* get_metadata in the ValueError of a source that is not 2-D after squeeze.
C5_PlatformName ==
    /\ BuiltMetadata =>
           /\ KnownPlatform
           /\ LastMetadata["platform_name"] =
                  IF "platform_name" \in DOMAIN NativeAttrs THEN NativeAttrs["platform_name"]
                  ELSE MappedName(filename_info[last.h]["platform_shortname"][2])
    /\ Returned("get_metadata") =>
           last.out.derived["platform_name"] = MappedName(filename_info[last.h]["platform_shortname"][2])
    /\ (last.op = "get_metadata" /\ ~KnownPlatform) =>
           (last.out.status = "KeyError" /\ "value" \notin DOMAIN last.out)
    /\ (last.op = "get_dataset" /\ ~KnownPlatform) =>
           /\ last.out.status \in {"KeyError", "ValueError"}
           /\ "value" \notin DOMAIN last.out
           /\ last.out.status = "ValueError" =>
                  (OnTimedVariable /\ (SourceH = 1 \/ SourceW = 1))

\* a metadata map with the mapped name of rs2
C5_Witness ==
    /\ Returned("get_dataset")
    /\ filename_info[last.h]["platform_shortname"] = Str("rs2")
    /\ last.out.value.attrs["platform_name"] = Str("RADARSAT-2")

(***************************************************************************)
(* The properties and the times of the metadata.                           *)
(***************************************************************************)
\* end_time as the claim has it: the explicit value, start_time without one
ExpectedEnd(fi) == IF "end_time" \in DOMAIN fi THEN fi["end_time"] ELSE fi["start_time"]

DerivedTime == utcfromtimestamp(Source.coords["time"][1])

\* C7 as stated: after every get_dataset call that returns, the attributes
\* have the key time, and its value is the timestamp derived from the first
\* sample of the time coordinate, whatever info and the native attributes are.
C7_TimeAlwaysDerived ==
    Returned("get_dataset") =>
        /\ "time" \in DOMAIN last.out.value.attrs
        /\ last.out.value.attrs["time"] = DerivedTime

\* C7 as amended: after every get_dataset call that returns, the attributes
\* have the key time; its value is the derived timestamp when neither info nor
\* the native attributes of the source variable have a key time, else the
\* value of the native attributes if they have it, else that of info.
C7_TimeKept ==
    Returned("get_dataset") =>
        /\ "time" \in DOMAIN last.out.value.attrs
        /\ last.out.value.attrs["time"] =
               IF "time" \in DOMAIN NativeAttrs THEN NativeAttrs["time"]
               ELSE IF "time" \in DOMAIN last.info THEN last.info["time"]
               ELSE DerivedTime

\* a returned array whose time is the derived timestamp, rounded to
\* microseconds
C7_Witness ==
    /\ Returned("get_dataset")
    /\ "time" \notin DOMAIN last.info
    /\ Source.coords["time"][1] = 2500
    /\ last.out.value.attrs["time"] = DateTime(2)

(***************************************************************************)
(* Frame and dimensions.                                                   *)
(***************************************************************************)
\* the dicts the caller handed to the last call are as they were
ArgumentsKept ==
    /\ last.op \in {"get_dataset", "get_metadata"} => last.out.info = last.info
    /\ last.op = "get_metadata" => last.out.attrs = last.attrs

\* a step leaves every instance as it was
InstancesKept ==
    \A h \in Handlers :
        /\ filename_info'[h] = filename_info[h]
        /\ platforms'[h] = platforms[h]
        /\ platforms'[h] = PlatformTable
        /\ file_content'[h] = file_content[h]

\* C8: no call changes filename_info, the platform table or the file of any
\* instance, nor the info and data.attrs of the caller.
C8_Frame == [](ArgumentsKept) /\ [][InstancesKept]_vars

\* a get_metadata call of the second instance that returned a map of more
\* keys than info, with info as it was
C8_Witness ==
    /\ Returned("get_metadata")
    /\ last.h = 2
    /\ last.out.info = last.info
    /\ DOMAIN last.out.value # DOMAIN last.info
    /\ "sensor" \in DOMAIN last.info

\* C9: on every get_dataset call that returns, the array at the rename step
\* has the dimensions (y, x), neither rename condition is true, and the
\* returned array has the dimensions (y, x), none named lon or lat.
C9_RenameNoOp ==
    Returned("get_dataset") =>
        /\ last.out.rename.before = <<"y", "x">>
        /\ ~last.out.rename.lon
        /\ ~last.out.rename.lat
        /\ last.out.value.dims = <<"y", "x">>
        /\ \A i \in 1..Len(last.out.value.dims) : last.out.value.dims[i] \notin {"lon", "lat"}

\* a returned array whose source has the dimensions lat and lon
C9_Witness ==
    /\ Returned("get_dataset")
    /\ \E i \in 1..Len(Source.dims) : Source.dims[i] = "lon"
    /\ \E i \in 1..Len(Source.dims) : Source.dims[i] = "lat"
    /\ last.out.value.dims = <<"y", "x">>

====
